---- MODULE Spec2Model ----
(***************************************************************************)
(* A model of app.py, the UIDAI strategic dashboard: a Streamlit script    *)
(* that is re-executed in full on every user interaction.  One run loads   *)
(* (or takes from the cache) the district dataset, cleans the state names, *)
(* filters by the selected region, applies the policy simulator to the     *)
(* stress column `assi` of the filtered copy and renders four tabs.        *)
(*                                                                         *)
(* Numbers.  The stress column is a real number in the program.  Here a    *)
(* stress is an integer count of units of 1/UnitsPerOne, chosen so that    *)
(* every product the script forms (stress * multiplier with a multiplier   *)
(* in hundredths, stress * (1 - impact) with an impact in hundredths) and  *)
(* the median of two such values is again a whole number of units: the     *)
(* arithmetic is exact decimal arithmetic, not IEEE rounding.              *)
(*                                                                         *)
(* Strings.  A state name is a sequence of one-character strings, so that  *)
(* strip, title and the correction table are computed character by         *)
(* character.                                                              *)
(***************************************************************************)
EXTENDS Integers, Sequences, FiniteSets, TLC

(***************************************************************************)
(* Bounds of the model.                                                    *)
(***************************************************************************)
\* the largest number of rows of a dataset
MaxRows == 2
\* the longest raw state name made of any characters of NameAlphabet
MaxNameLen == 3

(***************************************************************************)
(* Units.                                                                  *)
(***************************************************************************)
\* units per 0.01 of stress: even, so that the mean of two values is whole
UnitsPerHundredth == 2 * 100
UnitsPerOne == 100 * UnitsPerHundredth
\* a stress given in hundredths, in units
Stress(hundredths) == hundredths * UnitsPerHundredth

(***************************************************************************)
(* Characters and the string methods of load_data.                         *)
(***************************************************************************)
Lower == <<"a", "b", "c", "d", "e", "f", "g", "h", "i", "j", "k", "l", "m",
           "n", "o", "p", "q", "r", "s", "t", "u", "v", "w", "x", "y", "z">>
Upper == <<"A", "B", "C", "D", "E", "F", "G", "H", "I", "J", "K", "L", "M",
           "N", "O", "P", "Q", "R", "S", "T", "U", "V", "W", "X", "Y", "Z">>

IsLower(c) == \E i \in 1..26 : Lower[i] = c
IsUpper(c) == \E i \in 1..26 : Upper[i] = c
\* str: a cased character
IsCased(c) == IsLower(c) \/ IsUpper(c)
IsSpace(c) == c = " "

ToUpper(c) == IF IsLower(c) THEN Upper[CHOOSE i \in 1..26 : Lower[i] = c] ELSE c
ToLower(c) == IF IsUpper(c) THEN Lower[CHOOSE i \in 1..26 : Upper[i] = c] ELSE c

\* str.strip(): leading and trailing whitespace removed
RECURSIVE LStrip(_)
LStrip(s) == IF Len(s) > 0 /\ IsSpace(Head(s)) THEN LStrip(Tail(s)) ELSE s

RECURSIVE RStrip(_)
RStrip(s) ==
    IF Len(s) > 0 /\ IsSpace(s[Len(s)]) THEN RStrip(SubSeq(s, 1, Len(s) - 1)) ELSE s

Strip(s) == RStrip(LStrip(s))

\* str.title(): a cased character is upper-cased when the character before it
\* is not cased (or there is none), lower-cased otherwise
Title(s) ==
    [i \in 1..Len(s) |->
        IF ~IsCased(s[i]) THEN s[i]
        ELSE IF i = 1 \/ ~IsCased(s[i - 1]) THEN ToUpper(s[i])
        ELSE ToLower(s[i])]

\* the fixed typo-correction table, as <<key, value>> pairs
state_corrections ==
    << <<<<"W", "e", "s", "t", "b", "e", "n", "g", "a", "l">>,
         <<"W", "e", "s", "t", " ", "B", "e", "n", "g", "a", "l">>>>,
       <<<<"W", "e", "s", "t", " ", "B", "a", "n", "g", "a", "l">>,
         <<"W", "e", "s", "t", " ", "B", "e", "n", "g", "a", "l">>>>,
       <<<<"W", "e", "s", "t", "b", "e", "n", "g", "a">>,
         <<"W", "e", "s", "t", " ", "B", "e", "n", "g", "a", "l">>>>,
       <<<<"T", "e", "l", "e", "n", "g", "a", "n", "a">>,
         <<"T", "e", "l", "a", "n", "g", "a", "n", "a">>>>,
       <<<<"O", "r", "i", "s", "s", "a">>,
         <<"O", "d", "i", "s", "h", "a">>>>,
       <<<<"C", "h", "a", "t", "t", "i", "s", "g", "a", "r", "h">>,
         <<"C", "h", "h", "a", "t", "t", "i", "s", "g", "a", "r", "h">>>>,
       <<<<"J", "a", "m", "m", "u", " ", "A", "n", "d", " ", "K", "a", "s", "h", "m", "i", "r">>,
         <<"J", "a", "m", "m", "u", " ", "&", " ", "K", "a", "s", "h", "m", "i", "r">>>>,
       <<<<"D", "a", "m", "a", "n", " ", "A", "n", "d", " ", "D", "i", "u">>,
         <<"D", "a", "m", "a", "n", " ", "&", " ", "D", "i", "u">>>>,
       <<<<"D", "a", "d", "r", "a", " ", "A", "n", "d", " ", "N", "a", "g", "a", "r", " ", "H", "a", "v", "e", "l", "i">>,
         <<"D", "a", "d", "r", "a", " ", "&", " ", "N", "a", "g", "a", "r", " ", "H", "a", "v", "e", "l", "i">>>> >>

CorrectionKeys == {state_corrections[i][1] : i \in DOMAIN state_corrections}
CorrectionValues == {state_corrections[i][2] : i \in DOMAIN state_corrections}

\* Series.replace(state_corrections): a value equal to a key becomes the
\* key's value, every other value is kept
Replace(s) ==
    IF s \in CorrectionKeys
    THEN state_corrections[CHOOSE i \in DOMAIN state_corrections :
                               state_corrections[i][1] = s][2]
    ELSE s

\* a slip: the table is applied before the name is trimmed and title-cased
CleanStateName_ReplaceFirst(s) == Title(Strip(Replace(s)))

\* df['state'].astype(str).str.strip().str.title(), then .replace(...)
CleanStateName(s) == Replace(Title(Strip(s)))

(***************************************************************************)
(* The dataset file aadhaar_dashboard_data.csv.                            *)
(***************************************************************************)
AllColumns ==
    {"state", "district", "assi", "Priority", "security_status",
     "future_mbu_demand", "Preparedness_Index", "District_Playbook",
     "district_type", "assi_acceleration", "age_18_greater"}

\* the columns the script reads only behind a presence test or a default
GuardedColumns == {"district_type", "Preparedness_Index", "District_Playbook"}

NoFile == [cols |-> {}, rows |-> <<>>, found |-> FALSE]

Alert == "Sentinel Alert: Audit Required"

\* the district names of the model, in sorted() order
Districts == <<"Cuttack", "Howrah", "Kochi", "Puri">>

\* the rows a dataset of the model is made of; Preparedness_Index in tenths.
\* The stresses are 3.0, 0.05, 6.0, 2.5 and 0.
SurveyRows ==
    << [state |-> <<" ", "o", "r", "i", "s", "s", "a", " ">>, district |-> "Cuttack",
       assi |-> Stress(300), Priority |-> "CRITICAL", security_status |-> Alert,
       future_mbu_demand |-> 120, Preparedness_Index |-> 350,
       District_Playbook |-> "Deploy Mobile Vans", district_type |-> "Urban",
       assi_acceleration |-> 2, age_18_greater |-> 40],
      [state |-> <<"O", "d", "i", "s", "h", "a">>, district |-> "Puri",
       assi |-> Stress(5), Priority |-> "Normal", security_status |-> "Normal",
       future_mbu_demand |-> 40, Preparedness_Index |-> 800,
       District_Playbook |-> "Maintain Operations", district_type |-> "Rural",
       assi_acceleration |-> 0, age_18_greater |-> 3],
      [state |-> <<"W", "E", "S", "T", " ", "B", "A", "N", "G", "A", "L">>,
       district |-> "Howrah",
       assi |-> Stress(600), Priority |-> "High", security_status |-> "Normal",
       future_mbu_demand |-> 75, Preparedness_Index |-> 450,
       District_Playbook |-> "Add Update Centres", district_type |-> "Urban",
       assi_acceleration |-> 1, age_18_greater |-> 5],
      [state |-> <<"K", "e", "r", "a", "l", "a">>, district |-> "Kochi",
       assi |-> Stress(250), Priority |-> "High", security_status |-> Alert,
       future_mbu_demand |-> 10, Preparedness_Index |-> 350,
       District_Playbook |-> "Audit Operators", district_type |-> "Urban",
       assi_acceleration |-> 3, age_18_greater |-> 55],
      [state |-> <<"k", "e", "r", "a", "l", "a", " ">>, district |-> "Kochi",
       assi |-> Stress(0), Priority |-> "Normal", security_status |-> "Normal",
       future_mbu_demand |-> 0, Preparedness_Index |-> 650,
       District_Playbook |-> "Maintain Operations", district_type |-> "Rural",
       assi_acceleration |-> 0, age_18_greater |-> 1] >>

RowKinds == {SurveyRows[i] : i \in DOMAIN SurveyRows}

\* a row of a file that holds the columns cols
Project(row, cols) == [c \in cols |-> row[c]]

SeqsUpTo(S, n) == UNION {[1..k -> S] : k \in 0..n}

\* the files of the model: every sequence of rows with all columns, and a
\* fixed two-row file with some columns left out
TwoRows == <<SurveyRows[1], SurveyRows[2]>>

ColumnSets ==
    {AllColumns \ D : D \in SUBSET GuardedColumns}
        \cup {AllColumns \ {c} : c \in AllColumns}

\* a file of all the rows above
SurveyFile == [cols |-> AllColumns, rows |-> SurveyRows, found |-> TRUE]

Files ==
    {[cols |-> AllColumns, rows |-> rs, found |-> TRUE] : rs \in SeqsUpTo(RowKinds, MaxRows)}
        \cup {[cols |-> cs, rows |-> [i \in 1..2 |-> Project(TwoRows[i], cs)],
                found |-> TRUE] : cs \in ColumnSets}

(***************************************************************************)
(* load_data, under @st.cache_data.                                        *)
(***************************************************************************)
NotCached == [cols |-> {}, rows |-> <<>>, cached |-> FALSE]

\* the frame load_data returns for a file that has a state column
CleanFrame(file) ==
    [cols |-> file.cols,
     rows |-> [i \in DOMAIN file.rows |->
                 [file.rows[i] EXCEPT !["state"] = CleanStateName(@)]],
     cached |-> TRUE]

\* One call of load_data.  status "ok": a frame is returned; "stopped":
\* FileNotFoundError was caught, st.error shown and st.stop() called;
\* "KeyError": df['state'] raised, which the try block does not catch.
\* A call that does not return caches nothing.
load_data(file, cache_) ==
    IF cache_.cached THEN [status |-> "ok", df |-> cache_, cache |-> cache_]
    ELSE IF ~file.found THEN [status |-> "stopped", df |-> NotCached, cache |-> NotCached]
    ELSE IF "state" \notin file.cols
         THEN [status |-> "KeyError", df |-> NotCached, cache |-> NotCached]
    ELSE [status |-> "ok", df |-> CleanFrame(file), cache |-> CleanFrame(file)]

(***************************************************************************)
(* The region filter.                                                      *)
(***************************************************************************)
AllIndia == <<"A", "l", "l", " ", "I", "n", "d", "i", "a">>

StatesOf(d) == {d.rows[i]["state"] : i \in DOMAIN d.rows}

\* a slip: the regions offered are a fixed list, not those of the data
RegionOptions_FixedList(d) == {AllIndia} \cup StatesOf(d) \cup CorrectionValues

\* ["All India"] + sorted(df['state'].unique().tolist()): the regions offered.
\* The order of the list is not modelled.
RegionOptions(d) == {AllIndia} \cup StatesOf(d)

\* a view: the rows of a frame, each with its index label
Indexed(d) == [i \in DOMAIN d.rows |-> [idx |-> i, row |-> d.rows[i]]]

\* dashboard_df: df[df['state'] == selected_state].copy(), or df.copy()
FilterView(d, sel) ==
    IF sel # AllIndia
    THEN SelectSeq(Indexed(d), LAMBDA e : e.row["state"] = sel)
    ELSE Indexed(d)

(***************************************************************************)
(* The policy simulator.                                                   *)
(***************************************************************************)
Min(a, b) == IF a <= b THEN a ELSE b
Max(a, b) == IF a >= b THEN a ELSE b

\* the radio's two options
StressTestMode == "Stress Test (Break It)"
ReliefMode == "Deploy Solutions (Fix It)"

\* slider defaults and ranges: the multiplier in hundredths (1.0, 5.0, 1.0)
MultiplierMin == 100
MultiplierMax == 500
KitsMax == 50
StaffMax == 100

\* Stress > 5.0 is a crash
CollapseThreshold == 5 * UnitsPerOne
\* clip(lower=0.1)
StressFloor == UnitsPerOne \div 10
\* Capped at 90%, in hundredths
ImpactCap == 90

\* the view with the assi of its i-th row set to vals[i]
SetAssi(view, vals) ==
    [i \in DOMAIN view |->
        [view[i] EXCEPT !.row = [@ EXCEPT !["assi"] = vals[i]]]]

\* dashboard_df['assi'] * load_multiplier, the multiplier m in hundredths
ScaleAssi(view, m) ==
    SetAssi(view, [i \in DOMAIN view |-> (view[i].row["assi"] * m) \div 100])

\* a slip: a stress equal to the threshold counts as collapsed
CollapsedCount_AtLeast(view) ==
    Cardinality({i \in DOMAIN view : view[i].row["assi"] >= CollapseThreshold})

\* dashboard_df[dashboard_df['assi'] > 5.0].shape[0]
CollapsedCount(view) ==
    Cardinality({i \in DOMAIN view : view[i].row["assi"] > CollapseThreshold})

\* a slip: the cap is applied to the kits' share only
Impact_CapKitsOnly(k, s) == Min(2 * k, ImpactCap) + s

\* min((new_kits * 0.02) + (staff_boost * 0.01), 0.90), in hundredths
Impact(k, s) == Min((k * 2) + (s * 1), ImpactCap)

\* a slip: the stress is not clipped
RelieveAssi_NoClip(view, imp) ==
    SetAssi(view, [i \in DOMAIN view |-> (view[i].row["assi"] * (100 - imp)) \div 100])

\* a slip: the impact is added to the stress
RelieveAssi_Grows(view, imp) ==
    SetAssi(view, [i \in DOMAIN view |->
                     Max((view[i].row["assi"] * (100 + imp)) \div 100, StressFloor)])

\* (dashboard_df['assi'] * (1 - impact)).clip(lower=0.1)
RelieveAssi(view, imp) ==
    SetAssi(view, [i \in DOMAIN view |->
                     Max((view[i].row["assi"] * (100 - imp)) \div 100, StressFloor)])

\* The simulator on a view.  sidebar is what the sidebar shows below the
\* sliders; status "KeyError" when dashboard_df['assi'] is read and absent.
Simulate(view, cols, mode, mult, kits, staff) ==
    IF mode = StressTestMode
    THEN IF mult > MultiplierMin
         THEN IF "assi" \notin cols
              THEN [status |-> "KeyError", view |-> view, sidebar |-> <<>>]
              ELSE LET v == ScaleAssi(view, mult)
                   IN  [status |-> "ok", view |-> v,
                        sidebar |-> <<[kind |-> "error",
                                       collapsed_count |-> CollapsedCount(v),
                                       load_multiplier |-> mult]>>]
         ELSE [status |-> "ok", view |-> view,
               sidebar |-> <<[kind |-> "info",
                              text |-> "Increase load to test system resilience."]>>]
    ELSE IF kits > 0 \/ staff > 0
         THEN IF "assi" \notin cols
              THEN [status |-> "KeyError", view |-> view, sidebar |-> <<>>]
              ELSE [status |-> "ok", view |-> RelieveAssi(view, Impact(kits, staff)),
                    sidebar |-> <<[kind |-> "success",
                                   impact |-> Impact(kits, staff)]>>]
         ELSE [status |-> "ok", view |-> view,
               sidebar |-> <<[kind |-> "info",
                              text |-> "Deploy resources to fix the system."]>>]

(***************************************************************************)
(* Helpers of the tabs.                                                    *)
(***************************************************************************)
\* the first column of the sequence seq that the frame lacks, <<>> if none
FirstMissing(seq, cols) ==
    LET miss == SelectSeq(seq, LAMBDA c : c \notin cols)
    IN  IF Len(miss) = 0 THEN <<>> ELSE <<Head(miss)>>

\* [c for c in wanted if c in frame.columns]
ValidCols(wanted, cols) == SelectSeq(wanted, LAMBDA c : c \in cols)

\* sort_values: s ordered by the integer keys key[i], ties in their order in s
\* (the order the sort of a short column gives)
SortByKey(s, key) ==
    LET pos == [i \in DOMAIN s |->
                  1 + Cardinality({j \in DOMAIN s :
                          key[j] < key[i] \/ (key[j] = key[i] /\ j < i)})]
    IN  [p \in DOMAIN s |-> s[CHOOSE i \in DOMAIN s : pos[i] = p]]

SortAscending(view, col) ==
    SortByKey(view, [i \in DOMAIN view |-> view[i].row[col]])
SortDescending(view, col) ==
    SortByKey(view, [i \in DOMAIN view |-> 0 - view[i].row[col]])

\* Series.median(): <<>> stands for nan, the median of no values
Median(view) ==
    LET n == Len(view)
        sorted == SortAscending(view, "assi")
        at(i) == sorted[i].row["assi"]
    IN  IF n = 0 THEN <<>>
        ELSE IF n % 2 = 1 THEN <<at((n + 1) \div 2)>>
        ELSE <<(at(n \div 2) + at(n \div 2 + 1)) \div 2>>

RECURSIVE SumOf(_, _)
SumOf(view, col) ==
    IF Len(view) = 0 THEN 0 ELSE view[1].row[col] + SumOf(Tail(view), col)

\* DataFrame.head(n)
HeadRows(view, n) == SubSeq(view, 1, Min(n, Len(view)))

\* the rows of a table or export: the named columns, without the index
TableRows(view, cols) == [i \in DOMAIN view |-> Project(view[i].row, cols)]

(***************************************************************************)
(* Tab 1: the executive overview.                                          *)
(***************************************************************************)
\* the columns the four metrics read, in the order they are read
MetricColumns == <<"Priority", "assi", "future_mbu_demand", "security_status">>
\* the columns px.scatter is given, which raises ValueError for an absent one
ScatterColumns ==
    <<"assi_acceleration", "age_18_greater", "security_status", "assi", "district">>

\* a slip: the metrics are computed from the whole frame, not from the view
OverviewMetrics_WholeFrame(view, d) ==
    [critical_count |-> Cardinality({i \in DOMAIN d.rows : d.rows[i]["Priority"] = "CRITICAL"}),
     median_stress |-> Median(Indexed(d)),
     mbu_total |-> SumOf(Indexed(d), "future_mbu_demand"),
     security_alerts |->
         Cardinality({i \in DOMAIN d.rows : d.rows[i]["security_status"] # "Normal"})]

\* critical_count, median_stress, mbu_total, security_alerts of the view;
\* d is the loaded frame, which the metrics do not read
OverviewMetrics(view, d) ==
    [critical_count |->
         Cardinality({i \in DOMAIN view : view[i].row["Priority"] = "CRITICAL"}),
     median_stress |-> Median(view),
     mbu_total |-> SumOf(view, "future_mbu_demand"),
     security_alerts |->
         Cardinality({i \in DOMAIN view : view[i].row["security_status"] # "Normal"})]

\* if 'district_type' not in dashboard_df.columns:
\*     dashboard_df['district_type'] = 'Unknown'
WithDistrictType(view, cols) ==
    IF "district_type" \notin cols
    THEN [i \in DOMAIN view |->
            [idx |-> view[i].idx,
             row |-> [c \in cols \cup {"district_type"} |->
                        IF c = "district_type" THEN "Unknown" ELSE view[i].row[c]]]]
    ELSE view

Tab1(view, cols, d) ==
    LET m == FirstMissing(MetricColumns, cols)
        x == FirstMissing(ScatterColumns, cols)
    IN  IF m # <<>>
        THEN [status |-> "KeyError", column |-> m, metrics |-> <<>>,
              view |-> view, cols |-> cols]
        ELSE IF x # <<>>
        THEN [status |-> "ValueError", column |-> x,
              metrics |-> <<OverviewMetrics(view, d)>>, view |-> view, cols |-> cols]
        ELSE [status |-> "ok", column |-> <<>>,
              metrics |-> <<OverviewMetrics(view, d)>>,
              view |-> WithDistrictType(view, cols),
              cols |-> cols \cup {"district_type"}]

(***************************************************************************)
(* Tab 2: the sentinel table.                                              *)
(***************************************************************************)
SentinelColumns == <<"state", "district", "assi", "age_18_greater", "District_Playbook">>

\* <<>> stands for "No Security Anomalies Detected."
Tab2(view, cols) ==
    LET sentinel_data ==
            SortDescending(
                SelectSeq(view, LAMBDA e : e.row["security_status"] # "Normal"), "assi")
        valid_cols == ValidCols(SentinelColumns, cols)
    IN  IF Len(sentinel_data) > 0
        THEN <<[columns |-> valid_cols,
                rows |-> TableRows(sentinel_data,
                                   {valid_cols[i] : i \in DOMAIN valid_cols})]>>
        ELSE <<>>

(***************************************************************************)
(* Tab 3: the district deep-dive.                                          *)
(***************************************************************************)
\* sorted(dashboard_df['district'].unique())
DistList(view) ==
    LET ds == {view[i].row["district"] : i \in DOMAIN view}
    IN  SelectSeq(Districts, LAMBDA x : x \in ds)

\* Series.get(col, default)
Get(row, col, default) == IF col \in DOMAIN row THEN row[col] ELSE default

\* the colour of the preparedness score, the score in tenths
ScoreColor(score) ==
    IF score < 400 THEN "#FF4B4B" ELSE IF score < 700 THEN "#FFA500" ELSE "#00CC96"

\* the alert the priority is shown in
PriorityBox(priority) ==
    IF priority = "CRITICAL" THEN "error"
    ELSE IF priority = "High" THEN "warning" ELSE "success"

\* the deep-dive of the district sel_dist_: d_data is the first row of it
DeepDive(view, sel_dist_) ==
    LET d_data == SelectSeq(view, LAMBDA e : e.row["district"] = sel_dist_)[1].row
        priority == Get(d_data, "Priority", "Normal")
        score == Get(d_data, "Preparedness_Index", 0)
    IN  [district |-> d_data["district"], state |-> d_data["state"],
         priority |-> priority, box |-> PriorityBox(priority),
         score |-> score, color |-> ScoreColor(score),
         mbu |-> d_data["future_mbu_demand"],
         order |-> Get(d_data, "District_Playbook", "Maintain Operations"),
         progress |-> Min(d_data["assi"], 5 * UnitsPerOne)]

(***************************************************************************)
(* Tab 4: the strategic execution board.                                   *)
(***************************************************************************)
\* head(20)
TopN == 20

get_color(score) ==
    IF score < 400 THEN "#8b0000" ELSE IF score < 500 THEN "#d63031" ELSE "#fdcb6e"

\* <<>> when the frame has no Preparedness_Index
ChartData(view, cols) ==
    IF "Preparedness_Index" \in cols
    THEN LET top == HeadRows(SortAscending(view, "Preparedness_Index"), TopN)
         IN  <<[i \in DOMAIN top |->
                  [Label |-> <<top[i].row["district"], top[i].row["state"]>>,
                   Preparedness_Index |-> top[i].row["Preparedness_Index"],
                   Color |-> get_color(top[i].row["Preparedness_Index"])]]>>
    ELSE <<>>

\* action_plan: the CRITICAL and High rows of the view, by Preparedness_Index
\* when the frame has it
ActionPlan(view, cols) ==
    LET hot == SelectSeq(view, LAMBDA e : e.row["Priority"] \in {"CRITICAL", "High"})
    IN  IF "Preparedness_Index" \in cols
        THEN SortAscending(hot, "Preparedness_Index") ELSE hot

TableColumns ==
    <<"state", "district", "Priority", "assi", "future_mbu_demand",
      "District_Playbook", "Preparedness_Index">>

\* the table shown and the CSV offered for download (index=False)
Tab4(view, cols, d) ==
    LET action_plan == ActionPlan(view, cols)
        valid_cols_table == ValidCols(TableColumns, cols)
    IN  [chart_data |-> ChartData(view, cols),
         action_plan |-> action_plan,
         table |-> [columns |-> valid_cols_table,
                    rows |-> TableRows(action_plan,
                                 {valid_cols_table[i] : i \in DOMAIN valid_cols_table})],
         csv |-> [columns |-> cols, rows |-> TableRows(action_plan, cols)]]

(***************************************************************************)
(* One execution of the script.                                            *)
(***************************************************************************)
\* a slip: the run works on the cached frame itself, so that the simulator's
\* assignment to dashboard_df['assi'] lands in the cache
CacheAfterRun_Aliased(cached, view) ==
    [cached EXCEPT !.rows =
        [i \in DOMAIN cached.rows |->
            IF \E k \in DOMAIN view : view[k].idx = i /\ "assi" \in cached.cols
            THEN [cached.rows[i] EXCEPT !["assi"] =
                     view[CHOOSE k \in DOMAIN view : view[k].idx = i].row["assi"]]
            ELSE cached.rows[i]]]

\* The cached frame after a run that worked on view.  @st.cache_data hands
\* out a copy of the cached value and the filter takes .copy() of it: what
\* the run assigns to dashboard_df does not reach the cache.
CacheAfterRun(cached, view) == cached

BlankPage ==
    [steps |-> {}, error |-> <<>>, sidebar |-> <<>>, metrics |-> <<>>,
     sentinel |-> <<>>, dist_options |-> <<>>, deep_dive |-> <<>>, board |-> <<>>]

\* the district the deep-dive selectbox holds: the one it held when the box
\* was shown with the same options in the run before, its first option
\* otherwise
SelDist(options, prev_options, prev_sel) ==
    IF options = prev_options /\ \E i \in DOMAIN options : options[i] = prev_sel
    THEN prev_sel ELSE options[1]

\* the page and the result of a run that got past the deep-dive's test
AfterDeepDive(d, t1, pg2, dist_list, sd) ==
    [outcome |-> "done", dashboard_df |-> t1.view, sel_dist |-> sd,
     page |-> [pg2 EXCEPT !.dist_options = dist_list,
                          !.deep_dive = <<DeepDive(t1.view, sd)>>,
                          !.board = <<Tab4(t1.view, t1.cols, d)>>,
                          !.steps = @ \cup {"deep_dive", "board", "export"}]]

\* tab 3 and tab 4: st.stop() after "No districts found." when the view has
\* no district
AfterSentinel(d, t1, pg2, dist_list, prev_options, prev_sel) ==
    IF Len(dist_list) = 0
    THEN [outcome |-> "stop_no_districts", dashboard_df |-> t1.view,
          sel_dist |-> "", page |-> pg2]
    ELSE AfterDeepDive(d, t1, pg2, dist_list,
                       SelDist(dist_list, prev_options, prev_sel))

\* tab 1 has ended with t1: an exception ends the run, otherwise tab 2 follows
AfterTab1(d, t1, pg1, prev_options, prev_sel) ==
    IF t1.status = "KeyError"
    THEN [outcome |-> "KeyError", dashboard_df |-> t1.view, sel_dist |-> "",
          page |-> [pg1 EXCEPT !.error = t1.column]]
    ELSE IF t1.status = "ValueError"
    THEN [outcome |-> "ValueError", dashboard_df |-> t1.view, sel_dist |-> "",
          page |-> [pg1 EXCEPT !.error = t1.column, !.steps = @ \cup {"metrics"}]]
    ELSE AfterSentinel(d, t1,
             [pg1 EXCEPT !.sentinel = Tab2(t1.view, t1.cols),
                         !.steps = @ \cup {"metrics", "charts", "sentinel"}],
             DistList(t1.view), prev_options, prev_sel)

\* The script from the tabs on, on the view the simulator left.
RunTabs(d, view, cols, pg, prev_options, prev_sel) ==
    AfterTab1(d, Tab1(view, cols, d),
              [pg EXCEPT !.metrics = Tab1(view, cols, d).metrics],
              prev_options, prev_sel)

\* the simulator has ended with sim: a KeyError ends the run
AfterSimulate(d, sim, pg, prev_options, prev_sel) ==
    IF sim.status = "KeyError"
    THEN [outcome |-> "KeyError", dashboard_df |-> sim.view,
          sel_dist |-> "", page |-> [pg EXCEPT !.error = <<"assi">>]]
    ELSE RunTabs(d, sim.view, d.cols, [pg EXCEPT !.sidebar = sim.sidebar],
                 prev_options, prev_sel)

\* what a run that got past load_data leaves
Finish(ld, rest) ==
    [outcome |-> rest.outcome,
     cache |-> CacheAfterRun(ld.cache, rest.dashboard_df),
     dashboard_df |-> rest.dashboard_df,
     sel_dist |-> rest.sel_dist, page |-> rest.page]

\* load_data has ended with ld
AfterLoad(ld, sel, mode, mult, kits, staff, prev_options, prev_sel) ==
    IF ld.status = "stopped"
    THEN [outcome |-> "stop_no_file", cache |-> ld.cache, dashboard_df |-> <<>>,
          sel_dist |-> "",
          page |-> [BlankPage EXCEPT !.error = <<"Data file not found!">>]]
    ELSE IF ld.status = "KeyError"
    THEN [outcome |-> "KeyError", cache |-> ld.cache, dashboard_df |-> <<>>,
          sel_dist |-> "", page |-> [BlankPage EXCEPT !.error = <<"state">>]]
    ELSE Finish(ld,
             AfterSimulate(ld.df,
                 Simulate(FilterView(ld.df, sel), ld.df.cols, mode, mult, kits, staff),
                 [BlankPage EXCEPT !.steps = {"load", "region_filter", "simulator"}],
                 prev_options, prev_sel))

\* One run of the script for the widget values sel, mode, mult, kits, staff.
Run(file_, cache_, sel, mode, mult, kits, staff, prev_options, prev_sel) ==
    AfterLoad(load_data(file_, cache_), sel, mode, mult, kits, staff,
              prev_options, prev_sel)

(***************************************************************************)
(* The session: the file, the cache, the widget values and the last run.   *)
(***************************************************************************)
VARIABLES
    file,             \* aadhaar_dashboard_data.csv, or NoFile
    cache,            \* the value @st.cache_data holds for load_data
    selected_state,   \* "Filter by Region"
    sim_mode,         \* "Simulation Goal:"
    load_multiplier,  \* "Update Load Multiplier", in hundredths
    new_kits,         \* "Deploy New Kits (Per District)"
    staff_boost,      \* "Increase Staff Efficiency", in percent
    sel_dist,         \* "Select District"
    dashboard_df,     \* the view the last run worked on
    page,             \* what the last run rendered
    outcome           \* how the last run ended

vars == <<file, cache, selected_state, sim_mode, load_multiplier, new_kits,
          staff_boost, sel_dist, dashboard_df, page, outcome>>

\* the slider positions the model tries
Multipliers == {100, 101, 200, 250, 500}
KitCounts == {0, 10, 45}
StaffBoosts == {0, 50, 100}

\* the state a run with result r leaves
Commit(r, sel, mode, mult, kits, staff) ==
    /\ cache' = r.cache
    /\ selected_state' = sel
    /\ sim_mode' = mode
    /\ load_multiplier' = mult
    /\ new_kits' = kits
    /\ staff_boost' = staff
    /\ sel_dist' = r.sel_dist
    /\ dashboard_df' = r.dashboard_df
    /\ page' = r.page
    /\ outcome' = r.outcome
    /\ UNCHANGED file

\* the script runs for the widget values given and the state is what it leaves
Rerun(sel, mode, mult, kits, staff) ==
    Commit(Run(file, cache, sel, mode, mult, kits, staff, page.dist_options, sel_dist),
           sel, mode, mult, kits, staff)

\* a session about to open on one of the files fs
InitOn(fs) ==
    /\ file \in fs
    /\ cache = NotCached
    /\ selected_state = AllIndia
    /\ sim_mode = StressTestMode
    /\ load_multiplier = MultiplierMin
    /\ new_kits = 0
    /\ staff_boost = 0
    /\ sel_dist = ""
    /\ dashboard_df = <<>>
    /\ page = BlankPage
    /\ outcome = "init"

Init == InitOn(Files \cup {NoFile})

\* the session as a run with result r leaves it
Left(f, r, sel, mode, mult, kits, staff) ==
    /\ file = f
    /\ cache = r.cache
    /\ selected_state = sel
    /\ sim_mode = mode
    /\ load_multiplier = mult
    /\ new_kits = kits
    /\ staff_boost = staff
    /\ sel_dist = r.sel_dist
    /\ dashboard_df = r.dashboard_df
    /\ page = r.page
    /\ outcome = r.outcome

\* the fixed two-row file with all its columns: stresses 3.0 and 0.05
TwoRowFile == [cols |-> AllColumns, rows |-> TwoRows, found |-> TRUE]

\* a session on one of the two files that is about to open, or that has run
\* with the sliders of one goal anywhere in their ranges: the load multiplier
\* on the survey file, the kits and the staff on the two-row file
InitSliders ==
    \/ InitOn({SurveyFile, TwoRowFile})
    \/ \E m \in MultiplierMin..MultiplierMax :
          Left(SurveyFile,
               Run(SurveyFile, NotCached, AllIndia, StressTestMode, m, 0, 0, <<>>, ""),
               AllIndia, StressTestMode, m, 0, 0)
    \/ \E k \in 0..KitsMax, s \in 0..StaffMax :
          Left(TwoRowFile,
               Run(TwoRowFile, NotCached, AllIndia, ReliefMode, MultiplierMin, k, s,
                   <<>>, ""),
               AllIndia, ReliefMode, MultiplierMin, k, s)

\* raw state names: every string of up to MaxNameLen characters of
\* NameAlphabet, and the names of the correction table as they are, in lower
\* case, in upper case and with blanks around them
NameAlphabet == {"a", "B", " ", "&"}
LowerCase(s) == [i \in DOMAIN s |-> ToLower(s[i])]
UpperCase(s) == [i \in DOMAIN s |-> ToUpper(s[i])]
Variants(n) ==
    {n, LowerCase(n), UpperCase(n), <<" ">> \o n \o <<" ">>, LowerCase(n) \o <<" ">>}
RawNames ==
    SeqsUpTo(NameAlphabet, MaxNameLen)
        \cup UNION {Variants(n) : n \in CorrectionKeys \cup CorrectionValues}

\* a session about to open on a two-row file, the first row with any raw
\* state name
InitNames ==
    InitOn({[cols |-> AllColumns,
             rows |-> <<[SurveyRows[1] EXCEPT !["state"] = n], SurveyRows[2]>>,
             found |-> TRUE] : n \in RawNames})

\* the sidebar widgets are on the page: the last run got past load_data
SidebarShown == "simulator" \in page.steps

\* the session opens: the first run, every widget at its default
Open ==
    /\ outcome = "init"
    /\ Rerun(selected_state, sim_mode, load_multiplier, new_kits, staff_boost)

\* the user picks another region
SelectRegion ==
    /\ SidebarShown
    /\ \E r \in RegionOptions(cache) :
          /\ r # selected_state
          /\ Rerun(r, sim_mode, load_multiplier, new_kits, staff_boost)

\* the user picks the other simulation goal; the sliders of the goal left
\* are gone from the page and those of the new goal start at their defaults
SelectMode ==
    /\ SidebarShown
    /\ \E m \in {StressTestMode, ReliefMode} :
          /\ m # sim_mode
          /\ Rerun(selected_state, m, MultiplierMin, 0, 0)

SetMultiplier ==
    /\ SidebarShown
    /\ sim_mode = StressTestMode
    /\ \E m \in Multipliers :
          /\ m # load_multiplier
          /\ Rerun(selected_state, sim_mode, m, new_kits, staff_boost)

SetKits ==
    /\ SidebarShown
    /\ sim_mode = ReliefMode
    /\ \E k \in KitCounts :
          /\ k # new_kits
          /\ Rerun(selected_state, sim_mode, load_multiplier, k, staff_boost)

SetStaff ==
    /\ SidebarShown
    /\ sim_mode = ReliefMode
    /\ \E s \in StaffBoosts :
          /\ s # staff_boost
          /\ Rerun(selected_state, sim_mode, load_multiplier, new_kits, s)

\* the user picks another district in the deep-dive
SelectDistrict ==
    /\ "deep_dive" \in page.steps
    /\ \E i \in DOMAIN page.dist_options :
          /\ page.dist_options[i] # sel_dist
          /\ Commit(Run(file, cache, selected_state, sim_mode, load_multiplier,
                        new_kits, staff_boost, page.dist_options,
                        page.dist_options[i]),
                    selected_state, sim_mode, load_multiplier, new_kits, staff_boost)

Next ==
    \/ Open
    \/ SelectRegion
    \/ SelectMode
    \/ SetMultiplier
    \/ SetKits
    \/ SetStaff
    \/ SelectDistrict

Spec == Init /\ [][Next]_vars

\* sessions that start with the sliders anywhere in their ranges
SpecSliders == InitSliders /\ [][Next]_vars

\* sessions on files with any raw state name
SpecNames == InitNames /\ [][Next]_vars

(***************************************************************************)
(* The properties.  A stress "before" is the stress of the row in the      *)
(* loaded frame, found by the row's index label; a stress "after" is the   *)
(* stress of the row in dashboard_df.                                      *)
(***************************************************************************)
Before(e) == cache.rows[e.idx]["assi"]
After(e) == e.row["assi"]

\* the simulator has run on a frame that has the stress column
Simulated(mode) == SidebarShown /\ sim_mode = mode /\ "assi" \in cache.cols

\* the view's rows that collapse under the load multiplier m, by the stress
\* before: stress * m > 5.0
Collapsing(m) ==
    {k \in DOMAIN dashboard_df : Before(dashboard_df[k]) * m > 100 * CollapseThreshold}

\* the sidebar reports the collapsed count of the view for the multiplier
CountReported ==
    /\ Len(page.sidebar) = 1
    /\ page.sidebar[1].kind = "error"
    /\ page.sidebar[1].collapsed_count = Cardinality(Collapsing(load_multiplier))
    /\ \A k \in DOMAIN dashboard_df :
          100 * After(dashboard_df[k]) = Before(dashboard_df[k]) * load_multiplier

\* C1 as stated: in stress-test mode, for every multiplier from 1.0 to 5.0,
\* 1.0 included, a collapsed count is reported and it is the number of rows
\* of the view whose stress times the multiplier is greater than 5.0.
C1_CountReportedForEveryMultiplier == Simulated(StressTestMode) => CountReported

\* C1 amended: in stress-test mode a multiplier above 1.0 reports the
\* collapsed count, the number of rows of the view whose stress times the
\* multiplier is greater than 5.0; at 1.0 no count is reported, the sidebar
\* shows the hint and every stress is left as loaded.
C1_CountReportedAboveOne ==
    Simulated(StressTestMode) =>
        IF load_multiplier > MultiplierMin
        THEN CountReported
        ELSE /\ Len(page.sidebar) = 1
             /\ page.sidebar[1].kind = "info"
             /\ \A k \in DOMAIN dashboard_df :
                   After(dashboard_df[k]) = Before(dashboard_df[k])

\* the example of C1: 2.0 on a stress of 3.0 gives 6.0, counted as collapsed
C1_Witness ==
    /\ Simulated(StressTestMode)
    /\ load_multiplier = 200
    /\ \E k \in DOMAIN dashboard_df :
          /\ Before(dashboard_df[k]) = Stress(300)
          /\ After(dashboard_df[k]) = Stress(600)
          /\ k \in Collapsing(200)
    /\ page.sidebar[1].collapsed_count >= 1

\* the relieved stress of a row, by the stress before, times 100:
\* max(stress * (1 - min(0.02k + 0.01s, 0.90)), 0.1)
Relieved100(before, k, s) ==
    LET sum == 2 * k + s
        capped == IF sum < 90 THEN sum ELSE 90
        shrunk == before * (100 - capped)
    IN  IF shrunk > 100 * StressFloor THEN shrunk ELSE 100 * StressFloor

\* every row of the view holds the relieved stress, which is 0.1 or more
AllRelieved ==
    \A k \in DOMAIN dashboard_df :
        /\ 100 * After(dashboard_df[k]) =
               Relieved100(Before(dashboard_df[k]), new_kits, staff_boost)
        /\ 10 * After(dashboard_df[k]) >= UnitsPerOne

\* C2 as stated: in relief mode, for every kit count and staff efficiency,
\* 0 and 0 included, every row of the view ends with
\* max(stress * (1 - min(0.02k + 0.01s, 0.90)), 0.1), so none is below 0.1.
C2_RelievedForEveryInput == Simulated(ReliefMode) => AllRelieved

\* C2 amended: in relief mode with a kit count or a staff efficiency above 0
\* every row of the view ends with max(stress * (1 - min(0.02k + 0.01s,
\* 0.90)), 0.1), so none is below 0.1; with both at 0 every stress is left as
\* loaded, below 0.1 or not.
C2_RelievedWhenDeployed ==
    Simulated(ReliefMode) =>
        IF new_kits > 0 \/ staff_boost > 0
        THEN AllRelieved
        ELSE \A k \in DOMAIN dashboard_df :
                After(dashboard_df[k]) = Before(dashboard_df[k])

\* the example of C2: 10 kits and 50 % on a stress of 3.0 give 0.9, and a
\* stress of 0.05 is raised to the floor
C2_Witness ==
    /\ Simulated(ReliefMode)
    /\ new_kits = 10 /\ staff_boost = 50
    /\ \E k \in DOMAIN dashboard_df :
          Before(dashboard_df[k]) = Stress(300) /\ After(dashboard_df[k]) = Stress(90)
    /\ \E k \in DOMAIN dashboard_df :
          Before(dashboard_df[k]) = Stress(5) /\ After(dashboard_df[k]) = Stress(10)

\* the stress the widgets now on the page make of a stress as loaded, times
\* 100: one transform of the goal selected, or none
Expected100(before) ==
    IF sim_mode = StressTestMode
    THEN IF load_multiplier > 100 THEN before * load_multiplier ELSE 100 * before
    ELSE IF new_kits > 0 \/ staff_boost > 0
         THEN Relieved100(before, new_kits, staff_boost)
         ELSE 100 * before

\* C3: after any sequence of interactions the cached frame is the frame as
\* loaded from the file, and the stress of every row of the view is the one
\* transform the widgets now select, applied once to the stress as loaded.
C3_TransformAppliedOnce ==
    SidebarShown =>
        /\ cache = CleanFrame(file)
        /\ "assi" \in file.cols =>
              \A k \in DOMAIN dashboard_df :
                  100 * After(dashboard_df[k]) =
                      Expected100(CleanFrame(file).rows[dashboard_df[k].idx]["assi"])

\* a relief run that follows other transforming runs: in a session that
\* opened with the defaults, 10 kits and 50 % are set one after the other
C3_Witness ==
    /\ Simulated(ReliefMode)
    /\ new_kits = 10 /\ staff_boost = 50
    /\ selected_state # AllIndia
    /\ \E k \in DOMAIN dashboard_df :
          Before(dashboard_df[k]) = Stress(300) /\ After(dashboard_df[k]) = Stress(90)

\* the index labels of the loaded rows of the selected region, in order
InRegion(i) == selected_state = AllIndia \/ cache.rows[i]["state"] = selected_state
RegionIdx == SelectSeq([i \in DOMAIN cache.rows |-> i], InRegion)

\* the loaded rows of the selected region that satisfy P
RegionCount(P(_)) ==
    Cardinality({i \in DOMAIN cache.rows : InRegion(i) /\ P(cache.rows[i])})

RECURSIVE RegionSum(_, _)
RegionSum(col, n) ==
    IF n = 0 THEN 0
    ELSE RegionSum(col, n - 1) + (IF InRegion(n) THEN cache.rows[n][col] ELSE 0)

\* C4: the view holds exactly the loaded rows of the selected region, all of
\* them for "All India", each unchanged but for its stress; the collapsed
\* count, the overview metrics and the exported action plan are those of
\* these rows.
C4_RegionOnly ==
    SidebarShown =>
        /\ [k \in DOMAIN dashboard_df |-> dashboard_df[k].idx] = RegionIdx
        /\ \A k \in DOMAIN dashboard_df : \A c \in cache.cols \ {"assi"} :
              dashboard_df[k].row[c] = cache.rows[dashboard_df[k].idx][c]
        /\ (Len(page.sidebar) = 1 /\ page.sidebar[1].kind = "error") =>
              page.sidebar[1].collapsed_count =
                  RegionCount(LAMBDA r : r["assi"] * load_multiplier
                                             > 100 * CollapseThreshold)
        /\ Len(page.metrics) = 1 =>
              /\ page.metrics[1].critical_count =
                     RegionCount(LAMBDA r : r["Priority"] = "CRITICAL")
              /\ page.metrics[1].mbu_total =
                     RegionSum("future_mbu_demand", Len(cache.rows))
              /\ page.metrics[1].security_alerts =
                     RegionCount(LAMBDA r : r["security_status"] # "Normal")
              /\ Len(page.metrics[1].median_stress) = 1 =>
                     \E k \in DOMAIN dashboard_df :
                         After(dashboard_df[k]) >= page.metrics[1].median_stress[1]
        /\ Len(page.board) = 1 =>
              /\ {page.board[1].action_plan[k].idx :
                      k \in DOMAIN page.board[1].action_plan}
                   = {i \in DOMAIN cache.rows :
                         InRegion(i) /\ cache.rows[i]["Priority"] \in {"CRITICAL", "High"}}
              /\ Len(page.board[1].csv.rows) = Len(page.board[1].action_plan)
              /\ \A k \in DOMAIN page.board[1].csv.rows :
                    page.board[1].csv.rows[k]["state"] \in {selected_state} \cup
                        (IF selected_state = AllIndia THEN StatesOf(cache) ELSE {})

\* a region is selected that leaves part of the loaded rows out, and the
\* run has rendered the metrics and the export from the rest
C4_Witness ==
    /\ outcome = "done"
    /\ selected_state # AllIndia
    /\ Len(dashboard_df) > 0
    /\ Len(dashboard_df) < Len(cache.rows)
    /\ Len(page.board[1].action_plan) > 0
    /\ RegionCount(LAMBDA r : r["Priority"] \in {"CRITICAL", "High"})
           < Cardinality({i \in DOMAIN cache.rows :
                             cache.rows[i]["Priority"] \in {"CRITICAL", "High"}})

\* the columns C5 names
NamedColumns ==
    {"Priority", "security_status", "future_mbu_demand", "assi",
     "Preparedness_Index", "District_Playbook", "district_type"}

\* C5: for a file that is there and lacks only columns among priority,
\* security status, forecast demand, stress, preparedness score, recommended
\* action and district type, no run raises an error: each run reaches the
\* end of rendering.
C5_AbsentColumnsTolerated ==
    (file.found /\ AllColumns \ file.cols \subseteq NamedColumns /\ outcome # "init")
        => outcome \in {"done", "stop_no_districts"}

\* C6: when the file is not there the run shows the error message and halts
\* before any later step, and no other run ends in load_data with an error.
C6_OnlyLoadError ==
    outcome # "init" =>
        /\ ~file.found =>
              /\ outcome = "stop_no_file"
              /\ page = [BlankPage EXCEPT !.error = <<"Data file not found!">>]
              /\ dashboard_df = <<>>
        /\ file.found => "load" \in page.steps

\* a name without blanks at its ends
IsTrimmed(n) == Len(n) = 0 \/ (~IsSpace(n[1]) /\ ~IsSpace(n[Len(n)]))

\* a name whose cased characters are upper case at the start of each run of
\* cased characters and lower case inside it
IsTitleCased(n) ==
    \A i \in DOMAIN n :
        IsCased(n[i]) =>
            IF i = 1 \/ ~IsCased(n[i - 1]) THEN IsUpper(n[i]) ELSE IsLower(n[i])

Orissa == <<"O", "r", "i", "s", "s", "a">>
Odisha == <<"O", "d", "i", "s", "h", "a">>

\* the name in the file is Orissa, in any case and with any blanks around it
IsOrissa(raw) == LowerCase(Strip(raw)) = LowerCase(Orissa)

\* C7: once loaded, the state name of every row is trimmed and title-cased,
\* is no key of the correction table (a row of Orissa holds Odisha), and
\* cleaning it a second time leaves it as it is.
C7_NamesCanonical ==
    cache.cached =>
        \A i \in DOMAIN cache.rows :
            /\ IsTrimmed(cache.rows[i]["state"])
            /\ IsTitleCased(cache.rows[i]["state"])
            /\ cache.rows[i]["state"] \notin CorrectionKeys
            /\ CleanStateName(cache.rows[i]["state"]) = cache.rows[i]["state"]
            /\ IsOrissa(file.rows[i]["state"]) => cache.rows[i]["state"] = Odisha

\* a file that spells the state "orissa " has been loaded
C7_Witness ==
    /\ cache.cached
    /\ \E i \in DOMAIN cache.rows :
          /\ file.rows[i]["state"] = <<"o", "r", "i", "s", "s", "a", " ">>
          /\ cache.rows[i]["state"] = Odisha

C9_ReliefNeverRaises ==
    Simulated(ReliefMode) =>
        \A k \in DOMAIN dashboard_df : After(dashboard_df[k]) <= Before(dashboard_df[k])

\* C9 amended: in relief mode a row with a stress of 0.1 or more has a
\* stress after the transform that is not above the stress before it; a row
\* with a stress below 0.1 is raised to 0.1 when a kit count or a staff
\* efficiency above 0 is set, and is left as it is otherwise.
C9_ReliefShrinksAboveFloor ==
    Simulated(ReliefMode) =>
        \A k \in DOMAIN dashboard_df :
            IF Before(dashboard_df[k]) >= StressFloor
            THEN After(dashboard_df[k]) <= Before(dashboard_df[k])
            ELSE After(dashboard_df[k]) =
                    (IF new_kits > 0 \/ staff_boost > 0
                     THEN StressFloor ELSE Before(dashboard_df[k]))

\* relief has shrunk a stress of 3.0 and has raised one of 0.05 to 0.1
C9_Witness ==
    /\ Simulated(ReliefMode)
    /\ new_kits > 0
    /\ \E k \in DOMAIN dashboard_df :
          /\ Before(dashboard_df[k]) = Stress(300)
          /\ After(dashboard_df[k]) < Before(dashboard_df[k])
    /\ \E k \in DOMAIN dashboard_df :
          /\ Before(dashboard_df[k]) = Stress(5)
          /\ After(dashboard_df[k]) = StressFloor

\* C10: a run over a loaded frame that has rows works on a view that has
\* rows, whatever region is selected, so the run halts at "No districts
\* found." only when the loaded frame has no rows.
C10_ViewNeverEmpty ==
    /\ (SidebarShown /\ Len(cache.rows) > 0) => Len(dashboard_df) > 0
    /\ outcome = "stop_no_districts" => Len(cache.rows) = 0

\* a region other than "All India" is selected over a frame with rows of two
\* regions, and the run went past the deep-dive to the export
C10_Witness ==
    /\ outcome = "done"
    /\ selected_state # AllIndia
    /\ Len(dashboard_df) > 0
    /\ Len(dashboard_df) < Len(cache.rows)
    /\ "export" \in page.steps

====
